---- MODULE Spec2Model ----
(***************************************************************************)
(* Model of ftpsyncworker.py: the Worker connection pool and the           *)
(* RunningCommand executor thread.                                         *)
(*                                                                         *)
(* Threads: thread 0 is the caller of the Worker's public methods; thread  *)
(* c (c >= 1) is the RunningCommand thread started for command c.  The     *)
(* Worker holds no lock around its lists, so a thread switch may happen    *)
(* between any two of the steps below; each step reads or writes the       *)
(* shared state of the Worker at most once in a way another thread could   *)
(* observe.                                                                *)
(***************************************************************************)
EXTENDS Integers, Sequences, FiniteSets, TLC

\* ---- bounds ------------------------------------------------------------
NumCommands == 2
MaxLimit == 2
\* commands submitted in the runs that look for races between three threads
RaceCommands == 3
\* commands submitted in the burst scenario, and its limit
BurstCommands == 5
BurstLimit == 2
\* direct addConnection calls the caller makes in a run
MaxGiven == 1

Caller == 0
None == 0
\* the config the caller passes with command c: one config per command
ConfigOf(c) == c

\* Outcomes of the collaborators' calls.
FactoryOutcomes == {"ok", "empty", "toomany", "fatal"}
ExecOutcomes == {"ok", "okAsync", "fail"}

VARIABLES
    ncmd,             \* number of commands the caller will submit in this run
    limit,            \* Worker.limit
    debug,            \* Worker.debug
    connections,      \* Worker.connections: list of connection batches
    commands,         \* Worker.commands: list of pending execution records
    waitingCommands,  \* Worker.waitingCommands
    threadId,         \* Worker.threadId
    semaphore,        \* permits left in Worker.semaphore
    freeConnections,  \* Worker.freeConnections: list of slot indices
    pc,               \* position of each thread
    hp,               \* position of the thread inside __onFinish
    cmd,              \* `command` of the thread's current __run frame
    cfg,              \* `config` of the thread's current __run frame
    idx,              \* `index` local of __run
    tid,              \* self.threadId as read at line 162, until it is stored back
    recTid,           \* self.threadId as read at line 180, until the record is appended
    newLen,           \* len(self.connections) as evaluated at line 136, until it is appended
    it,               \* position of the list iterator of line 195
    found,            \* `config` local of __onFinish
    depth,            \* suspended __run frames of the thread (each inside its except clause)
    raised,           \* an exception is propagating out of the thread's call
    submitted,        \* number of addCommand calls made so far
    bound,            \* command -> connection slot given to command.setConnection (0: none)
    dbg,              \* command -> RunningCommand.debug
    isRunning,        \* command -> what command.isRunning() returns
    execLog,          \* command -> its command.execute() calls in order: "ok" or "fail"
    admit,            \* command -> branch addCommand took for it at line 143
    finishCalls,      \* command -> number of onFinish calls made by its RunningCommand
    polledFalse,      \* command -> its RunningCommand saw isRunning() return false
    obs,              \* position of the thread that calls isEmpty()
    pending,          \* commands admitted and unfinished when its isEmpty() call began
    observed          \* what its last isEmpty() call returned ("none": no call has returned)

vars == <<ncmd, limit, debug, connections, commands, waitingCommands, threadId, semaphore,
          freeConnections, pc, hp, cmd, cfg, idx, tid, recTid, newLen, it, found, depth,
          raised,
          submitted, bound, dbg, isRunning, execLog, admit, finishCalls, polledFalse,
          obs, pending, observed>>

fixedVars == <<ncmd, limit>>
workerVars == <<connections, commands, waitingCommands, threadId, semaphore, freeConnections>>
frameVars == <<cmd, cfg, idx, tid, recTid, newLen, depth>>
handlerVars == <<hp, it, found>>
callVars == <<submitted, admit>>
execVars == <<isRunning, execLog, finishCalls, polledFalse>>
observerVars == <<obs, pending, observed>>

Commands == 1..ncmd
Threads == 0..ncmd

\* ---- pure helpers -------------------------------------------------------

\* list.pop(): the last element and the rest
Last(s) == s[Len(s)]
Front(s) == SubSeq(s, 1, Len(s) - 1)

RemoveAt(s, i) == SubSeq(s, 1, i - 1) \o SubSeq(s, i + 1, Len(s))

\* list.remove(x): the first item equal to x goes
Remove(s, x) ==
    RemoveAt(s, CHOOSE k \in 1..Len(s) : s[k] = x /\ \A j \in 1..(k - 1) : s[j] # x)

\* ---- initial state ------------------------------------------------------

InitThreads(n) ==
    /\ ncmd = n
    /\ pc = [t \in 0..n |-> IF t = Caller THEN "idle" ELSE "none"]
    /\ hp = [t \in 0..n |-> "call"]
    /\ cmd = [t \in 0..n |-> 0]
    /\ cfg = [t \in 0..n |-> None]
    /\ idx = [t \in 0..n |-> 0]
    /\ tid = [t \in 0..n |-> 0]
    /\ recTid = [t \in 0..n |-> 0]
    /\ newLen = [t \in 0..n |-> 0]
    /\ it = [t \in 0..n |-> 0]
    /\ found = [t \in 0..n |-> None]
    /\ depth = [t \in 0..n |-> 0]
    /\ raised = [t \in 0..n |-> FALSE]
    /\ submitted = 0
    /\ bound = [c \in 1..n |-> 0]
    /\ dbg = [c \in 1..n |-> FALSE]
    /\ isRunning = [c \in 1..n |-> FALSE]
    /\ execLog = [c \in 1..n |-> <<>>]
    /\ admit = [c \in 1..n |-> "none"]
    /\ finishCalls = [c \in 1..n |-> 0]
    /\ polledFalse = [c \in 1..n |-> FALSE]
    /\ obs = "idle"
    /\ pending = {}
    /\ observed = "none"

\* Worker.__init__
InitWorker(l) ==
    /\ limit = l
    /\ debug = FALSE
    /\ connections = <<>>
    /\ commands = <<>>
    /\ waitingCommands = <<>>
    /\ threadId = 0
    /\ semaphore = l
    /\ freeConnections = <<>>

Init == (\E l \in 1..MaxLimit : InitWorker(l)) /\ InitThreads(NumCommands)

\* ---- the caller's other public calls --------------------------------------

\* lines 104-105
EnableDebug ==
    /\ pc[Caller] = "idle"
    /\ ~debug
    /\ debug' = TRUE
    /\ UNCHANGED <<fixedVars, observerVars, workerVars, pc, frameVars, raised, handlerVars, callVars, bound,
                   dbg, execVars>>

\* lines 108-109
DisableDebug ==
    /\ pc[Caller] = "idle"
    /\ debug
    /\ debug' = FALSE
    /\ UNCHANGED <<fixedVars, observerVars, workerVars, pc, frameVars, raised, handlerVars, callVars, bound,
                   dbg, execVars>>

\* the batches the caller has added itself
Given == {k \in 1..Len(connections) : connections[k] = "given"}

\* lines 116-117: addConnection called by the caller with a batch of its own
AddConnection ==
    /\ pc[Caller] = "idle"
    /\ Cardinality(Given) < MaxGiven
    /\ connections' = Append(connections, "given")
    /\ UNCHANGED <<fixedVars, observerVars, debug, commands, waitingCommands, threadId, semaphore,
                   freeConnections, pc, frameVars, raised, handlerVars, callVars, bound, dbg,
                   execVars>>

\* ---- Worker.addCommand ---------------------------------------------------

\* an admission test that lets one command more through
AtLimitStrict == Len(commands) > limit

\* line 143: the admission test
AtLimit == Len(commands) >= limit

\* lines 141-148: the caller passes the next command and a config; the test of
\* line 143 picks __waitCommand or __run.
AddCommand ==
    /\ pc[Caller] = "idle"
    /\ submitted < ncmd
    /\ submitted' = submitted + 1
    /\ cmd' = [cmd EXCEPT ![Caller] = submitted + 1]
    /\ cfg' = [cfg EXCEPT ![Caller] = ConfigOf(submitted + 1)]
    /\ raised' = [raised EXCEPT ![Caller] = FALSE]
    /\ pc' = [pc EXCEPT ![Caller] = IF AtLimit THEN "wait" ELSE "acquire"]
    /\ admit' = [admit EXCEPT ![submitted + 1] = IF AtLimit THEN "wait" ELSE "run"]
    /\ UNCHANGED <<fixedVars, observerVars, debug, workerVars, idx, tid, recTid, newLen, depth, handlerVars, bound, dbg,
                   execVars>>

\* lines 155-156
WaitCommand ==
    /\ pc[Caller] = "wait"
    /\ waitingCommands' = Append(waitingCommands, cmd[Caller])
    /\ pc' = [pc EXCEPT ![Caller] = "idle"]
    /\ UNCHANGED <<fixedVars, observerVars, debug, connections, commands, threadId, semaphore,
                   freeConnections, frameVars, raised, handlerVars, callVars, bound, dbg,
                   execVars>>

\* ---- Worker.__run --------------------------------------------------------

\* lines 159-161: a new frame of __run, whose local `index` is not yet set;
\* semaphore.acquire() blocks while no permit is left
RunAcquire(t) ==
    /\ pc[t] = "acquire"
    /\ semaphore > 0
    /\ semaphore' = semaphore - 1
    /\ idx' = [idx EXCEPT ![t] = 0]
    /\ pc' = [pc EXCEPT ![t] = "count"]
    /\ UNCHANGED <<fixedVars, observerVars, debug, connections, commands, waitingCommands, threadId,
                   freeConnections, cmd, cfg, tid, recTid, newLen, depth, raised, handlerVars,
                   callVars, bound, dbg, execVars>>

\* line 162, the right-hand side: self.threadId is read
RunCount(t) ==
    /\ pc[t] = "count"
    /\ tid' = [tid EXCEPT ![t] = threadId]
    /\ pc' = [pc EXCEPT ![t] = "store"]
    /\ UNCHANGED <<fixedVars, observerVars, debug, workerVars, cmd, cfg, idx, recTid, newLen, depth, raised,
                   handlerVars, callVars, bound, dbg, execVars>>

\* line 162, the assignment: the value read plus one is stored
RunStore(t) ==
    /\ pc[t] = "store"
    /\ threadId' = tid[t] + 1
    /\ tid' = [tid EXCEPT ![t] = 0]
    /\ pc' = [pc EXCEPT ![t] = "fill"]
    /\ UNCHANGED <<fixedVars, observerVars, debug, connections, commands, waitingCommands, semaphore,
                   freeConnections, cmd, cfg, idx, recTid, newLen, depth, raised, handlerVars,
                   callVars, bound, dbg, execVars>>

\* line 121: the test of fillConnection
MayFill == Len(connections) <= limit

\* lines 120-121 (and 138): fillConnection is entered from line 164 or 167
FillCheck(t) ==
    /\ pc[t] = "fill"
    /\ pc' = [pc EXCEPT ![t] = IF MayFill THEN "factory" ELSE "loop"]
    /\ UNCHANGED <<fixedVars, observerVars, debug, workerVars, frameVars, raised, handlerVars, callVars,
                   bound, dbg, execVars>>

\* a fillConnection that re-raises every error of the factory
AfterFactoryRaiseAll(o) ==
    CASE o = "ok" -> "len"
      [] o \in {"fatal", "toomany"} -> "except"
      [] OTHER -> "loop"

\* lines 126-134: where fillConnection goes after the factory call
AfterFactory(o) ==
    CASE o = "ok" -> "len"
      [] o = "fatal" -> "except"
      [] OTHER -> "loop"

\* lines 124-135: the factory call and what follows it. "toomany" is swallowed
\* (line 127-129), "fatal" is re-raised (line 132) into the except clause of
\* __run, an empty or None result adds nothing (line 134), a batch is appended
\* by addConnection (line 135).
FillFactory(t, o) ==
    /\ pc[t] = "factory"
    /\ connections' = IF o = "ok" THEN Append(connections, "batch") ELSE connections
    /\ pc' = [pc EXCEPT ![t] = AfterFactory(o)]
    /\ UNCHANGED <<fixedVars, observerVars, debug, commands, waitingCommands, threadId, semaphore,
                   freeConnections, frameVars, raised, handlerVars, callVars, bound, dbg,
                   execVars>>

\* line 136: the slot index to mark free is len(self.connections), read now
NewSlot == Len(connections)

\* line 136, the argument: len(self.connections) is evaluated
FillLen(t) ==
    /\ pc[t] = "len"
    /\ newLen' = [newLen EXCEPT ![t] = NewSlot]
    /\ pc' = [pc EXCEPT ![t] = "freeappend"]
    /\ UNCHANGED <<fixedVars, observerVars, debug, workerVars, cmd, cfg, idx, tid, recTid, depth, raised, handlerVars,
                   callVars, bound, dbg, execVars>>

\* line 136, the call: the value read is appended to the free list
FillFree(t) ==
    /\ pc[t] = "freeappend"
    /\ freeConnections' = Append(freeConnections, newLen[t])
    /\ newLen' = [newLen EXCEPT ![t] = 0]
    /\ pc' = [pc EXCEPT ![t] = "loop"]
    /\ UNCHANGED <<fixedVars, observerVars, debug, connections, commands, waitingCommands, threadId,
                   semaphore, cmd, cfg, idx, tid, recTid, depth, raised, handlerVars, callVars, bound, dbg,
                   execVars>>

\* lines 165-167: the busy-wait for a free slot
RunLoop(t) ==
    /\ pc[t] = "loop"
    /\ pc' = [pc EXCEPT ![t] = IF Len(freeConnections) = 0 THEN "fill" ELSE "pop"]
    /\ UNCHANGED <<fixedVars, observerVars, debug, workerVars, frameVars, raised, handlerVars, callVars,
                   bound, dbg, execVars>>

\* line 169: which slot freeConnections.pop() takes
PopSlot(free) == Last(free)

\* line 169: pop a slot; IndexError when another thread emptied the list since
\* line 165
RunPop(t) ==
    /\ pc[t] = "pop"
    /\ IF Len(freeConnections) = 0
       THEN /\ pc' = [pc EXCEPT ![t] = "except"]
            /\ UNCHANGED <<freeConnections, idx>>
       ELSE /\ freeConnections' = Front(freeConnections)
            /\ idx' = [idx EXCEPT ![t] = PopSlot(freeConnections)]
            /\ pc' = [pc EXCEPT ![t] = "bind"]
    /\ UNCHANGED <<fixedVars, observerVars, debug, connections, commands, waitingCommands, threadId,
                   semaphore, cmd, cfg, tid, recTid, newLen, depth, raised, handlerVars,
                   callVars, bound, dbg, execVars>>

\* a dispatch that does not hand the slot's connection to the command
RunBindUnbound(t, setOk) ==
    /\ pc[t] = "bind"
    /\ dbg' = [dbg EXCEPT ![cmd[t]] = debug]
    /\ pc' = [pc EXCEPT ![t] = IF setOk THEN "record" ELSE "except"]
    /\ UNCHANGED <<fixedVars, observerVars, debug, workerVars, frameVars, raised, handlerVars, callVars,
                   bound, execVars>>

\* lines 170-174: create the RunningCommand with the Worker's debug flag and
\* hand the slot's connection to the command; setConnection may raise.
RunBind(t, setOk) ==
    /\ pc[t] = "bind"
    /\ dbg' = [dbg EXCEPT ![cmd[t]] = debug]
    /\ IF setOk
       THEN /\ bound' = [bound EXCEPT ![cmd[t]] = idx[t]]
            /\ pc' = [pc EXCEPT ![t] = "record"]
       ELSE /\ bound' = bound
            /\ pc' = [pc EXCEPT ![t] = "except"]
    /\ UNCHANGED <<fixedVars, observerVars, debug, workerVars, frameVars, raised, handlerVars, callVars,
                   execVars>>

\* lines 176-180: the dict of the record is built from the locals and from
\* self.threadId, which is read now
RunRecord(t) ==
    /\ pc[t] = "record"
    /\ recTid' = [recTid EXCEPT ![t] = threadId]
    /\ pc' = [pc EXCEPT ![t] = "append"]
    /\ UNCHANGED <<fixedVars, observerVars, debug, workerVars, cmd, cfg, idx, tid, newLen, depth, raised,
                   handlerVars, callVars, bound, dbg, execVars>>

\* a dispatch that keeps no record of the command
RunAppendNoRecord(t) ==
    /\ pc[t] = "append"
    /\ recTid' = [recTid EXCEPT ![t] = 0]
    /\ pc' = [pc EXCEPT ![t] = "start"]
    /\ UNCHANGED <<fixedVars, observerVars, debug, workerVars, cmd, cfg, idx, tid, newLen, depth, raised,
                   handlerVars, callVars, bound, dbg, execVars>>

\* lines 175-181: the pending execution record as it was built
NewRecord(t) == [command |-> cmd[t], config |-> cfg[t], index |-> idx[t],
                 threadId |-> recTid[t]]

\* line 175: self.commands.append is called with the dict
RunAppend(t) ==
    /\ pc[t] = "append"
    /\ commands' = Append(commands, NewRecord(t))
    /\ recTid' = [recTid EXCEPT ![t] = 0]
    /\ pc' = [pc EXCEPT ![t] = "start"]
    /\ UNCHANGED <<fixedVars, observerVars, debug, connections, waitingCommands, threadId, semaphore,
                   freeConnections, cmd, cfg, idx, tid, newLen, depth, raised, handlerVars,
                   callVars, bound, dbg, execVars>>

\* line 183: thread.start() of the RunningCommand of this command
RunStart(t) ==
    /\ pc[t] = "start"
    /\ pc[cmd[t]] = "none"
    /\ pc' = [pc EXCEPT ![t] = "release", ![cmd[t]] = "exec"]
    /\ UNCHANGED <<fixedVars, observerVars, debug, workerVars, frameVars, raised, handlerVars, callVars,
                   bound, dbg, execVars>>

\* lines 184-185: the except clause of __run calls __onFinish(command); the
\* exception is re-raised (line 186) once that call is over
RunExcept(t) ==
    /\ pc[t] = "except"
    /\ hp[t] = "call"
    /\ hp' = [hp EXCEPT ![t] = "scan"]
    /\ it' = [it EXCEPT ![t] = 1]
    /\ found' = [found EXCEPT ![t] = None]
    /\ UNCHANGED <<fixedVars, observerVars, debug, workerVars, pc, frameVars, raised, callVars, bound, dbg,
                   execVars>>

\* lines 187-188: the finally clause; then the frame returns or re-raises into
\* the frame that called it
RunRelease(t) ==
    /\ pc[t] = "release"
    /\ semaphore' = semaphore + 1
    /\ IF depth[t] > 0
       THEN /\ depth' = [depth EXCEPT ![t] = @ - 1]
            /\ raised' = [raised EXCEPT ![t] = TRUE]
            /\ pc' = pc
       ELSE /\ depth' = depth
            /\ raised' = raised
            /\ pc' = [pc EXCEPT ![t] = IF t = Caller THEN "idle"
                                       ELSE IF raised[t] THEN "died" ELSE "done"]
    /\ UNCHANGED <<fixedVars, observerVars, debug, connections, commands, waitingCommands, threadId,
                   freeConnections, cmd, cfg, idx, tid, recTid, newLen, handlerVars, callVars, bound, dbg,
                   execVars>>

\* ---- Worker.__onFinish ---------------------------------------------------
\* Thread t is inside __onFinish while pc[t] is "finish" (called by its
\* RunningCommand at line 75) or "except" (called by __run at line 185).

InHandler(t) == pc[t] \in {"finish", "except"}

\* the `command` argument of the call
HandlerCommand(t) == IF pc[t] = "finish" THEN t ELSE cmd[t]

\* the record the loop variable `cmd` holds at lines 197-199
HandlerRecord(t) ==
    commands[CHOOSE k \in 1..Len(commands) : commands[k].command = HandlerCommand(t)]

\* __onFinish returns, or the IndexError of line 207 leaves it (error): into
\* line 186 of the __run frame that called it, or out of the RunningCommand
HandlerLeave(t, error) ==
    /\ pc' = [pc EXCEPT ![t] = IF pc[t] = "except" THEN "release"
                               ELSE IF raised[t] \/ error THEN "died" ELSE "done"]
    /\ raised' = [raised EXCEPT ![t] = @ \/ error \/ pc[t] = "except"]
    /\ hp' = [hp EXCEPT ![t] = "call"]
    /\ it' = [it EXCEPT ![t] = 0]
    /\ found' = [found EXCEPT ![t] = None]

\* lines 195-196: the list iterator hands out the item at its position and
\* moves on by one, or ends the loop when the position is past the list
ScanNext(t) ==
    /\ InHandler(t)
    /\ hp[t] = "scan"
    /\ IF it[t] > Len(commands)
       THEN /\ hp' = [hp EXCEPT ![t] = "test"]
            /\ it' = [it EXCEPT ![t] = 0]
       ELSE /\ hp' = [hp EXCEPT ![t] = IF commands[it[t]].command = HandlerCommand(t)
                                       THEN "free" ELSE "scan"]
            /\ it' = [it EXCEPT ![t] = @ + 1]
    /\ UNCHANGED <<fixedVars, observerVars, debug, workerVars, pc, frameVars, raised, found, callVars,
                   bound, dbg, execVars>>

\* lines 197-198: the record's slot is appended to the free list
ScanFree(t) ==
    /\ InHandler(t)
    /\ hp[t] = "free"
    /\ freeConnections' = Append(freeConnections, HandlerRecord(t).index)
    /\ found' = [found EXCEPT ![t] = HandlerRecord(t).config]
    /\ hp' = [hp EXCEPT ![t] = "remove"]
    /\ UNCHANGED <<fixedVars, observerVars, debug, connections, commands, waitingCommands, threadId,
                   semaphore, pc, frameVars, raised, it, callVars, bound, dbg, execVars>>

\* line 199: the record is removed; the iterator keeps its position
ScanRemove(t) ==
    /\ InHandler(t)
    /\ hp[t] = "remove"
    /\ commands' = Remove(commands, HandlerRecord(t))
    /\ hp' = [hp EXCEPT ![t] = "scan"]
    /\ UNCHANGED <<fixedVars, observerVars, debug, connections, waitingCommands, threadId, semaphore,
                   freeConnections, pc, frameVars, raised, it, found, callVars, bound, dbg,
                   execVars>>

\* line 206: the test of the wait queue
WakeTest(t) ==
    /\ InHandler(t)
    /\ hp[t] = "test"
    /\ IF Len(waitingCommands) > 0
       THEN /\ hp' = [hp EXCEPT ![t] = "pop"]
            /\ UNCHANGED <<pc, raised, it, found>>
       ELSE HandlerLeave(t, FALSE)
    /\ UNCHANGED <<fixedVars, observerVars, debug, workerVars, frameVars, callVars, bound, dbg, execVars>>

\* line 207: waitingCommands.pop() takes the last command of the queue
PopWaiting(w) == [command |-> Last(w), rest |-> Front(w)]

\* lines 207-208: the pop (IndexError when another thread emptied the queue
\* since line 206) and the call __run(awakenCommand, config)
WakePop(t) ==
    /\ InHandler(t)
    /\ hp[t] = "pop"
    /\ IF Len(waitingCommands) = 0
       THEN /\ HandlerLeave(t, TRUE)
            /\ UNCHANGED <<waitingCommands, cmd, cfg, depth>>
       ELSE /\ waitingCommands' = PopWaiting(waitingCommands).rest
            /\ cmd' = [cmd EXCEPT ![t] = PopWaiting(waitingCommands).command]
            /\ cfg' = [cfg EXCEPT ![t] = found[t]]
            /\ depth' = [depth EXCEPT ![t] = IF pc[t] = "except" THEN @ + 1 ELSE @]
            /\ pc' = [pc EXCEPT ![t] = "acquire"]
            /\ hp' = [hp EXCEPT ![t] = "call"]
            /\ it' = [it EXCEPT ![t] = 0]
            /\ found' = [found EXCEPT ![t] = None]
            /\ raised' = raised
    /\ UNCHANGED <<fixedVars, observerVars, debug, connections, commands, threadId, semaphore,
                   freeConnections, idx, tid, recTid, newLen, callVars, bound, dbg, execVars>>

\* ---- RunningCommand.run --------------------------------------------------

\* what one command.execute() call does to the command
Executed(c, o) ==
    /\ execLog' = [execLog EXCEPT ![c] = Append(@, IF o = "fail" THEN "fail" ELSE "ok")]
    /\ isRunning' = [isRunning EXCEPT ![c] = (o = "okAsync")]

\* lines 65 and 57: with debug on, "[command N]" + e is evaluated with e an
\* exception, which raises TypeError inside the except clause
DebugMessageRaises(c) == dbg[c]

\* lines 61-65: the first call; on its failure the except clause is entered
\* and goes on to the retry unless its debug print raises
ExecFirst(c, o) ==
    /\ pc[c] = "exec"
    /\ Executed(c, o)
    /\ pc' = [pc EXCEPT ![c] = IF o = "fail" /\ ~DebugMessageRaises(c) THEN "retry" ELSE "poll"]
    /\ raised' = [raised EXCEPT ![c] = o = "fail" /\ DebugMessageRaises(c)]
    /\ UNCHANGED <<fixedVars, observerVars, debug, workerVars, frameVars, handlerVars, callVars, bound, dbg,
                   finishCalls, polledFalse>>

\* lines 66-68: the retry is not guarded; its failure propagates after the
\* finally clause
ExecRetry(c, o) ==
    /\ pc[c] = "retry"
    /\ Executed(c, o)
    /\ raised' = [raised EXCEPT ![c] = (o = "fail")]
    /\ pc' = [pc EXCEPT ![c] = "poll"]
    /\ UNCHANGED <<fixedVars, observerVars, debug, workerVars, frameVars, handlerVars, callVars, bound, dbg,
                   finishCalls, polledFalse>>

\* the command's asynchronous work ends
CommandStops(c) ==
    /\ isRunning[c]
    /\ isRunning' = [isRunning EXCEPT ![c] = FALSE]
    /\ UNCHANGED <<fixedVars, observerVars, debug, workerVars, pc, frameVars, raised, handlerVars, callVars,
                   bound, dbg, execLog, finishCalls, polledFalse>>

\* an executor that does not wait for the command
PollExitAtOnce(c) == TRUE

\* line 71: the loop is left when isRunning() is false
PollExit(c) == ~isRunning[c]

\* lines 70-73: the polling loop ends
PollDone(c) ==
    /\ pc[c] = "poll"
    /\ PollExit(c)
    /\ polledFalse' = [polledFalse EXCEPT ![c] = ~isRunning[c]]
    /\ pc' = [pc EXCEPT ![c] = "finish"]
    /\ UNCHANGED <<fixedVars, observerVars, debug, workerVars, frameVars, raised, handlerVars, callVars,
                   bound, dbg, isRunning, execLog, finishCalls>>

\* line 75: self.onFinish(self.command), which is Worker.__onFinish (line 192)
OnFinish(c) ==
    /\ pc[c] = "finish"
    /\ hp[c] = "call"
    /\ finishCalls' = [finishCalls EXCEPT ![c] = @ + 1]
    /\ hp' = [hp EXCEPT ![c] = "scan"]
    /\ it' = [it EXCEPT ![c] = 1]
    /\ found' = [found EXCEPT ![c] = None]
    /\ UNCHANGED <<fixedVars, observerVars, debug, workerVars, pc, frameVars, raised, callVars, bound, dbg,
                   isRunning, execLog, polledFalse>>

\* ---- isEmpty(), called from a thread of its own ---------------------------------
\* Line 152 evaluates len(self.commands) == 0 and, only when that holds,
\* len(self.waitingCommands) == 0; the other threads run between the two reads.

\* positions of a thread inside __run
DispatchPcs == {"acquire", "count", "store", "fill", "factory", "len", "freeappend",
                "loop", "pop", "bind", "record", "append", "start", "except",
                "release"}

InQueue(c) == \E k \in 1..Len(waitingCommands) : waitingCommands[k] = c

\* addCommand(c) has returned to the caller
Returned(c) == c < submitted \/ (c = submitted /\ pc[Caller] = "idle")

\* no run of __onFinish has begun for command c: it is not submitted yet, or
\* addCommand stands before line 145 with it, or it is queued, or a thread is
\* inside __run with it (at line 185 of a failed dispatch: before the call of
\* __onFinish), or its RunningCommand has not reached the call of line 75
Unfinished(c) ==
    \/ c > submitted
    \/ cmd[Caller] = c /\ pc[Caller] = "wait"
    \/ InQueue(c)
    \/ \E t \in Threads : cmd[t] = c /\ pc[t] \in (DispatchPcs \ {"except", "release"})
    \/ \E t \in Threads : cmd[t] = c /\ pc[t] = "except" /\ hp[t] = "call"
    \/ pc[c] \in {"exec", "retry", "poll"}
    \/ pc[c] = "finish" /\ hp[c] = "call"

\* isEmpty() is called
IsEmptyCall ==
    /\ obs = "idle"
    /\ obs' = "commands"
    /\ pending' = {c \in Commands : Returned(c) /\ Unfinished(c)}
    /\ observed' = "none"
    /\ UNCHANGED <<fixedVars, debug, workerVars, pc, frameVars, raised, handlerVars, callVars,
                   bound, dbg, execVars>>

\* line 152, left operand: a non-empty command list makes the call return False
IsEmptyCommands ==
    /\ obs = "commands"
    /\ IF Len(commands) = 0
       THEN /\ obs' = "waiting"
            /\ UNCHANGED <<pending, observed>>
       ELSE /\ obs' = "idle"
            /\ pending' = {}
            /\ observed' = "false"
    /\ UNCHANGED <<fixedVars, debug, workerVars, pc, frameVars, raised, handlerVars, callVars,
                   bound, dbg, execVars>>

\* line 152, right operand: the call returns whether the wait queue is empty
IsEmptyWaiting ==
    /\ obs = "waiting"
    /\ obs' = "idle"
    /\ pending' = {}
    /\ observed' = IF Len(waitingCommands) = 0 THEN "true" ELSE "false"
    /\ UNCHANGED <<fixedVars, debug, workerVars, pc, frameVars, raised, handlerVars, callVars,
                   bound, dbg, execVars>>

\* ---- specification -------------------------------------------------------

Next ==
    \/ AddCommand
    \/ WaitCommand
    \/ EnableDebug
    \/ DisableDebug
    \/ AddConnection
    \/ IsEmptyCall
    \/ IsEmptyCommands
    \/ IsEmptyWaiting
    \/ \E t \in Threads : RunAcquire(t)
    \/ \E t \in Threads : RunCount(t)
    \/ \E t \in Threads : RunStore(t)
    \/ \E t \in Threads : FillCheck(t)
    \/ \E t \in Threads, o \in FactoryOutcomes : FillFactory(t, o)
    \/ \E t \in Threads : FillLen(t)
    \/ \E t \in Threads : FillFree(t)
    \/ \E t \in Threads : RunLoop(t)
    \/ \E t \in Threads : RunPop(t)
    \/ \E t \in Threads, setOk \in BOOLEAN : RunBind(t, setOk)
    \/ \E t \in Threads : RunRecord(t)
    \/ \E t \in Threads : RunAppend(t)
    \/ \E t \in Threads : RunStart(t)
    \/ \E t \in Threads : RunExcept(t)
    \/ \E t \in Threads : RunRelease(t)
    \/ \E t \in Threads : ScanNext(t)
    \/ \E t \in Threads : ScanFree(t)
    \/ \E t \in Threads : ScanRemove(t)
    \/ \E t \in Threads : WakeTest(t)
    \/ \E t \in Threads : WakePop(t)
    \/ \E c \in Commands, o \in ExecOutcomes : ExecFirst(c, o)
    \/ \E c \in Commands, o \in ExecOutcomes : ExecRetry(c, o)
    \/ \E c \in Commands : CommandStops(c)
    \/ \E c \in Commands : PollDone(c)
    \/ \E c \in Commands : OnFinish(c)

Spec == Init /\ [][Next]_vars

\* ---- steps by thread -------------------------------------------------------

\* the steps of __onFinish after its call
HandlerSteps(t) ==
    \/ ScanNext(t)
    \/ ScanFree(t)
    \/ ScanRemove(t)
    \/ WakeTest(t)
    \/ WakePop(t)

\* RunningCommand.run up to the end of its polling loop
ExecPhase(c) ==
    \/ \E o \in ExecOutcomes : ExecFirst(c, o)
    \/ \E o \in ExecOutcomes : ExecRetry(c, o)
    \/ CommandStops(c)
    \/ PollDone(c)

\* RunningCommand.run up to its onFinish call
ExecutorStep(c) == ExecPhase(c) \/ OnFinish(c)

\* RunningCommand.run of a command whose execute() succeeds at once and leaves
\* nothing running
ExecSync(c) == ExecFirst(c, "ok") \/ PollDone(c) \/ OnFinish(c)

\* ---- commands that succeed at once, any factory ---------------------------
\* Every execute() call succeeds and leaves nothing running and debug stays
\* off, so that the executors only differ in when they finish; the factory and
\* setConnection may fail, and the caller may add a batch of its own.

NextSync ==
    \/ AddCommand
    \/ WaitCommand
    \/ AddConnection
    \/ \E t \in Threads : RunAcquire(t)
    \/ \E t \in Threads : RunCount(t)
    \/ \E t \in Threads : RunStore(t)
    \/ \E t \in Threads : FillCheck(t)
    \/ \E t \in Threads, o \in FactoryOutcomes : FillFactory(t, o)
    \/ \E t \in Threads : FillLen(t)
    \/ \E t \in Threads : FillFree(t)
    \/ \E t \in Threads : RunLoop(t)
    \/ \E t \in Threads : RunPop(t)
    \/ \E t \in Threads, setOk \in BOOLEAN : RunBind(t, setOk)
    \/ \E t \in Threads : RunRecord(t)
    \/ \E t \in Threads : RunAppend(t)
    \/ \E t \in Threads : RunStart(t)
    \/ \E t \in Threads : RunExcept(t)
    \/ \E t \in Threads : RunRelease(t)
    \/ \E t \in Threads : ScanNext(t)
    \/ \E t \in Threads : ScanFree(t)
    \/ \E t \in Threads : ScanRemove(t)
    \/ \E t \in Threads : WakeTest(t)
    \/ \E t \in Threads : WakePop(t)
    \/ \E c \in Commands : ExecFirst(c, "ok")
    \/ \E c \in Commands : PollDone(c)
    \/ \E c \in Commands : OnFinish(c)

SyncSpec == Init /\ [][NextSync]_vars

\* ---- three commands --------------------------------------------------------
\* As above without direct addConnection calls, with one command more: a
\* dispatch by the caller and two executors, or three executors, run together.

InitRace == (\E l \in 1..MaxLimit : InitWorker(l)) /\ InitThreads(RaceCommands)

NextRace ==
    \/ AddCommand
    \/ WaitCommand
    \/ IsEmptyCall
    \/ IsEmptyCommands
    \/ IsEmptyWaiting
    \/ \E t \in Threads : RunAcquire(t)
    \/ \E t \in Threads : RunCount(t)
    \/ \E t \in Threads : RunStore(t)
    \/ \E t \in Threads : FillCheck(t)
    \/ \E t \in Threads, o \in FactoryOutcomes : FillFactory(t, o)
    \/ \E t \in Threads : FillLen(t)
    \/ \E t \in Threads : FillFree(t)
    \/ \E t \in Threads : RunLoop(t)
    \/ \E t \in Threads : RunPop(t)
    \/ \E t \in Threads, setOk \in BOOLEAN : RunBind(t, setOk)
    \/ \E t \in Threads : RunRecord(t)
    \/ \E t \in Threads : RunAppend(t)
    \/ \E t \in Threads : RunStart(t)
    \/ \E t \in Threads : RunExcept(t)
    \/ \E t \in Threads : RunRelease(t)
    \/ \E t \in Threads : ScanNext(t)
    \/ \E t \in Threads : ScanFree(t)
    \/ \E t \in Threads : ScanRemove(t)
    \/ \E t \in Threads : WakeTest(t)
    \/ \E t \in Threads : WakePop(t)
    \/ \E c \in Commands : ExecFirst(c, "ok")
    \/ \E c \in Commands : PollDone(c)
    \/ \E c \in Commands : OnFinish(c)

RaceSpec == InitRace /\ [][NextRace]_vars

\* ---- a reliable environment -------------------------------------------------
\* The connection factory always returns a batch, setConnection does not fail,
\* every command finishes, and every thread keeps running.

DispatchReliable(t) ==
    \/ RunAcquire(t)
    \/ RunCount(t)
    \/ RunStore(t)
    \/ FillCheck(t)
    \/ FillFactory(t, "ok")
    \/ FillLen(t)
    \/ FillFree(t)
    \/ RunLoop(t)
    \/ RunPop(t)
    \/ RunBind(t, TRUE)
    \/ RunRecord(t)
    \/ RunAppend(t)
    \/ RunStart(t)
    \/ RunRelease(t)
    \/ HandlerSteps(t)

ThreadReliable(t) ==
    IF t = Caller THEN WaitCommand \/ DispatchReliable(t)
    ELSE ExecSync(t) \/ DispatchReliable(t)

NextReliable ==
    \/ AddCommand
    \/ WaitCommand
    \/ \E t \in Threads : RunAcquire(t)
    \/ \E t \in Threads : RunCount(t)
    \/ \E t \in Threads : RunStore(t)
    \/ \E t \in Threads : FillCheck(t)
    \/ \E t \in Threads : FillFactory(t, "ok")
    \/ \E t \in Threads : FillLen(t)
    \/ \E t \in Threads : FillFree(t)
    \/ \E t \in Threads : RunLoop(t)
    \/ \E t \in Threads : RunPop(t)
    \/ \E t \in Threads : RunBind(t, TRUE)
    \/ \E t \in Threads : RunRecord(t)
    \/ \E t \in Threads : RunAppend(t)
    \/ \E t \in Threads : RunStart(t)
    \/ \E t \in Threads : RunRelease(t)
    \/ \E t \in Threads : ScanNext(t)
    \/ \E t \in Threads : ScanFree(t)
    \/ \E t \in Threads : ScanRemove(t)
    \/ \E t \in Threads : WakeTest(t)
    \/ \E t \in Threads : WakePop(t)
    \/ \E c \in Commands : ExecFirst(c, "ok")
    \/ \E c \in Commands : PollDone(c)
    \/ \E c \in Commands : OnFinish(c)

ReliableSpec ==
    /\ InitRace
    /\ [][NextReliable]_vars
    /\ \A t \in 0..RaceCommands : WF_vars(ThreadReliable(t))

\* ---- a factory that may fail for good ---------------------------------------
\* The connection factory returns a batch or raises an error other than "too
\* many connections"; setConnection does not fail; every thread keeps running.

DispatchFatal(t) ==
    \/ RunAcquire(t)
    \/ RunCount(t)
    \/ RunStore(t)
    \/ FillCheck(t)
    \/ \E o \in {"ok", "fatal"} : FillFactory(t, o)
    \/ FillLen(t)
    \/ FillFree(t)
    \/ RunLoop(t)
    \/ RunPop(t)
    \/ RunBind(t, TRUE)
    \/ RunRecord(t)
    \/ RunAppend(t)
    \/ RunStart(t)
    \/ RunExcept(t)
    \/ RunRelease(t)
    \/ HandlerSteps(t)

ThreadFatal(t) ==
    IF t = Caller THEN WaitCommand \/ DispatchFatal(t)
    ELSE ExecSync(t) \/ DispatchFatal(t)

NextFatal ==
    \/ AddCommand
    \/ WaitCommand
    \/ \E t \in Threads : RunAcquire(t)
    \/ \E t \in Threads : RunCount(t)
    \/ \E t \in Threads : RunStore(t)
    \/ \E t \in Threads : FillCheck(t)
    \/ \E t \in Threads, o \in {"ok", "fatal"} : FillFactory(t, o)
    \/ \E t \in Threads : FillLen(t)
    \/ \E t \in Threads : FillFree(t)
    \/ \E t \in Threads : RunLoop(t)
    \/ \E t \in Threads : RunPop(t)
    \/ \E t \in Threads : RunBind(t, TRUE)
    \/ \E t \in Threads : RunRecord(t)
    \/ \E t \in Threads : RunAppend(t)
    \/ \E t \in Threads : RunStart(t)
    \/ \E t \in Threads : RunExcept(t)
    \/ \E t \in Threads : RunRelease(t)
    \/ \E t \in Threads : ScanNext(t)
    \/ \E t \in Threads : ScanFree(t)
    \/ \E t \in Threads : ScanRemove(t)
    \/ \E t \in Threads : WakeTest(t)
    \/ \E t \in Threads : WakePop(t)
    \/ \E c \in Commands : ExecFirst(c, "ok")
    \/ \E c \in Commands : PollDone(c)
    \/ \E c \in Commands : OnFinish(c)

FatalSpec ==
    /\ InitRace
    /\ [][NextFatal]_vars
    /\ \A t \in 0..RaceCommands : WF_vars(ThreadFatal(t))

\* ---- a server that may be out of connections -------------------------------
\* The connection factory returns a batch or fails with "too many connections";
\* setConnection does not fail; execute() may fail.

NextBusy ==
    \/ AddCommand
    \/ WaitCommand
    \/ \E t \in Threads : RunAcquire(t)
    \/ \E t \in Threads : RunCount(t)
    \/ \E t \in Threads : RunStore(t)
    \/ \E t \in Threads : FillCheck(t)
    \/ \E t \in Threads, o \in {"ok", "toomany"} : FillFactory(t, o)
    \/ \E t \in Threads : FillLen(t)
    \/ \E t \in Threads : FillFree(t)
    \/ \E t \in Threads : RunLoop(t)
    \/ \E t \in Threads : RunPop(t)
    \/ \E t \in Threads : RunBind(t, TRUE)
    \/ \E t \in Threads : RunRecord(t)
    \/ \E t \in Threads : RunAppend(t)
    \/ \E t \in Threads : RunStart(t)
    \/ \E t \in Threads : RunRelease(t)
    \/ \E t \in Threads : ScanNext(t)
    \/ \E t \in Threads : ScanFree(t)
    \/ \E t \in Threads : ScanRemove(t)
    \/ \E t \in Threads : WakeTest(t)
    \/ \E t \in Threads : WakePop(t)
    \/ \E c \in Commands, o \in ExecOutcomes : ExecFirst(c, o)
    \/ \E c \in Commands, o \in ExecOutcomes : ExecRetry(c, o)
    \/ \E c \in Commands : CommandStops(c)
    \/ \E c \in Commands : PollDone(c)
    \/ \E c \in Commands : OnFinish(c)

BusySpec == Init /\ [][NextBusy]_vars

\* ---- the scenario of five commands at once --------------------------------
\* limit = 2; the caller submits five commands before any of them finishes;
\* the environment is the reliable one.

AllSubmitted == submitted = ncmd /\ pc[Caller] = "idle"

InitBurst == InitWorker(BurstLimit) /\ InitThreads(BurstCommands)

NextBurst ==
    \/ AddCommand
    \/ WaitCommand
    \/ \E t \in Threads : RunAcquire(t)
    \/ \E t \in Threads : RunCount(t)
    \/ \E t \in Threads : RunStore(t)
    \/ \E t \in Threads : FillCheck(t)
    \/ \E t \in Threads : FillFactory(t, "ok")
    \/ \E t \in Threads : FillLen(t)
    \/ \E t \in Threads : FillFree(t)
    \/ \E t \in Threads : RunLoop(t)
    \/ \E t \in Threads : RunPop(t)
    \/ \E t \in Threads : RunBind(t, TRUE)
    \/ \E t \in Threads : RunRecord(t)
    \/ \E t \in Threads : RunAppend(t)
    \/ \E t \in Threads : RunStart(t)
    \/ \E t \in Threads : RunRelease(t)
    \/ \E t \in Threads : ScanNext(t)
    \/ \E t \in Threads : ScanFree(t)
    \/ \E t \in Threads : ScanRemove(t)
    \/ \E t \in Threads : WakeTest(t)
    \/ \E t \in Threads : WakePop(t)
    \/ \E c \in Commands : ExecFirst(c, "ok")
    \/ \E c \in Commands : PollDone(c)
    \/ \E c \in Commands : AllSubmitted /\ OnFinish(c)

ThreadBurst(t) ==
    IF t = Caller THEN AddCommand \/ WaitCommand \/ DispatchReliable(t)
    ELSE \/ ExecFirst(t, "ok")
         \/ PollDone(t)
         \/ (AllSubmitted /\ OnFinish(t))
         \/ DispatchReliable(t)

BurstSpec ==
    /\ InitBurst
    /\ [][NextBurst]_vars
    /\ \A t \in 0..BurstCommands : WF_vars(ThreadBurst(t))

\* ---- any commands, executors scheduled fairly -------------------------------
\* The factory and setConnection do not fail; execute() may fail or leave work
\* running; debug is switched on before the first command or not at all; each
\* RunningCommand thread keeps running up to its onFinish call and each
\* command's asynchronous work ends.

NextFair ==
    \/ AddCommand
    \/ WaitCommand
    \/ (submitted = 0 /\ EnableDebug)
    \/ \E t \in Threads : RunAcquire(t)
    \/ \E t \in Threads : RunCount(t)
    \/ \E t \in Threads : RunStore(t)
    \/ \E t \in Threads : FillCheck(t)
    \/ \E t \in Threads : FillFactory(t, "ok")
    \/ \E t \in Threads : FillLen(t)
    \/ \E t \in Threads : FillFree(t)
    \/ \E t \in Threads : RunLoop(t)
    \/ \E t \in Threads : RunPop(t)
    \/ \E t \in Threads : RunBind(t, TRUE)
    \/ \E t \in Threads : RunRecord(t)
    \/ \E t \in Threads : RunAppend(t)
    \/ \E t \in Threads : RunStart(t)
    \/ \E t \in Threads : RunRelease(t)
    \/ \E t \in Threads : ScanNext(t)
    \/ \E t \in Threads : ScanFree(t)
    \/ \E t \in Threads : ScanRemove(t)
    \/ \E t \in Threads : WakeTest(t)
    \/ \E t \in Threads : WakePop(t)
    \/ \E c \in Commands, o \in ExecOutcomes : ExecFirst(c, o)
    \/ \E c \in Commands, o \in ExecOutcomes : ExecRetry(c, o)
    \/ \E c \in Commands : CommandStops(c)
    \/ \E c \in Commands : PollDone(c)
    \/ \E c \in Commands : OnFinish(c)

FairSpec ==
    /\ Init
    /\ [][NextFair]_vars
    /\ \A c \in 1..NumCommands : WF_vars(ExecutorStep(c))

\* ==== claims ================================================================

\* no thread is inside __run or __onFinish
Quiescent ==
    \A t \in Threads : pc[t] \notin DispatchPcs /\ ~(pc[t] = "finish" /\ hp[t] # "call")

HasRecord(c) == \E k \in 1..Len(commands) : commands[k].command = c

\* how often slot index i occurs in the free list
FreeCount(i) == Cardinality({k \in 1..Len(freeConnections) : freeConnections[k] = i})

\* how often slot index i occurs in the free list and in the records
SlotCount(i) ==
    FreeCount(i) + Cardinality({k \in 1..Len(commands) : commands[k].index = i})

\* thread t takes a step of its own
Moves(t) == <<pc[t], hp[t], it[t]>>' # <<pc[t], hp[t], it[t]>>

\* thread t executes line 207 of __onFinish
WakeStep(t) == InHandler(t) /\ hp[t] = "pop" /\ Moves(t)

\* thread t leaves the except clause of __run
ExceptEnds(t) == pc[t] = "except" /\ pc'[t] # "except"

\* C1: in every reachable state the running-command list has at most `limit`
\* entries.
C1_RunningWithinLimit == Len(commands) <= limit

\* C2: outside a dispatch or completion step every slot index created by
\* fillConnection is in exactly one place: the record of one running command,
\* or once in the free list.
C2_SlotInOnePlace ==
    Quiescent => \A i \in 1..Len(connections) : SlotCount(i) = 1

\* C3: with a factory that always succeeds and commands that finish, every
\* command addCommand placed in the wait queue is eventually dispatched: its
\* RunningCommand is started.
C3_QueuedEventuallyDispatched ==
    \A c \in 1..RaceCommands : InQueue(c) ~> (pc[c] # "none")

\* C4: isEmpty() is never true while a command whose addCommand call has
\* returned has not had its completion handler run: an isEmpty() call that
\* begins after addCommand(c) has returned and returns before the completion
\* handler of c has begun returns False.
C4_EmptyOnlyWhenAllFinished ==
    [][(obs = "waiting" /\ obs' = "idle" /\ observed' = "true")
       => \A c \in pending : ~(Returned(c) /\ Unfinished(c))]_vars

\* C5: with limit = 2 and five commands submitted before any finishes, the
\* pool never holds more than 2 connections, and all five commands complete.
C5_TwoConnectionsForFive ==
    /\ [](Len(connections) <= BurstLimit)
    /\ <>(\A c \in 1..BurstCommands : finishCalls[c] = 1)

\* C6: with limit = 1, command 1 dispatched on slot 1 and command 2 queued
\* behind it, the completion of command 1 dispatches command 2 on the freed
\* slot 1: the record its completion handler appends for command 2 has index 1.
C6_QueuedReusesFreedSlot ==
    (/\ limit = 1
     /\ bound[1] = 1
     /\ admit[2] = "wait"
     /\ cmd[1] = 2
     /\ HasRecord(2))
    => \E k \in 1..Len(commands) : commands[k].command = 2 /\ commands[k].index = 1

\* C6, the isEmpty() part: in the same scenario an isEmpty() call that begins
\* after command 2 was queued and returns before the completion handler of
\* command 2 has begun returns False.
C6_BusyUntilQueuedFinished ==
    [][(/\ limit = 1
        /\ bound[1] = 1
        /\ admit[2] = "wait"
        /\ obs = "waiting"
        /\ obs' = "idle"
        /\ 2 \in pending
        /\ Unfinished(2))
       => observed' = "false"]_vars

\* C7: an addCommand call made with fewer than `limit` running commands that
\* returns normally has given the command a record bound to a slot and has
\* started its executor; such a command is never in the wait queue.
C7_AdmittedRunsBeforeReturn ==
    /\ [][(/\ pc[Caller] = "release"
           /\ pc'[Caller] = "idle"
           /\ admit[submitted] = "run"
           /\ ~raised'[Caller])
          => (/\ pc'[submitted] # "none"
              /\ bound'[submitted] \in 1..Len(connections')
              /\ \/ \E k \in 1..Len(commands') :
                        /\ commands'[k].command = submitted
                        /\ commands'[k].index = bound'[submitted]
                 \/ finishCalls'[submitted] > 0)]_vars
    /\ [](\A c \in 1..NumCommands : admit[c] = "run" => ~InQueue(c))

C7_Witness ==
    /\ pc[Caller] = "idle"
    /\ submitted >= 1
    /\ admit[submitted] = "run"
    /\ ~raised[Caller]
    /\ HasRecord(submitted)
    /\ pc[submitted] = "exec"

\* the caller queues commands in the order of their numbers
MostRecentQueued ==
    CHOOSE c \in Commands : InQueue(c) /\ \A d \in Commands : InQueue(d) => d <= c

\* thread t takes the most recently queued command, and only it, out of the
\* queue and enters __run with it
Woken(t) ==
    /\ Len(waitingCommands) > 0
    /\ waitingCommands' = SelectSeq(waitingCommands, LAMBDA x : x # MostRecentQueued)
    /\ Len(waitingCommands') = Len(waitingCommands) - 1
    /\ cmd'[t] = MostRecentQueued
    /\ pc'[t] = "acquire"

\* C8: a run of the completion handler that finds the wait queue non-empty at
\* line 206 takes exactly one command out of it, the most recently queued one,
\* and enters __run with it; the queue loses a command, and a queued command
\* enters __run, in no other step.
C8_WakeOneLifo ==
    [][/\ \A t \in Threads : WakeStep(t) => Woken(t)
       /\ Len(waitingCommands') < Len(waitingCommands)
            => \E t \in Threads : WakeStep(t) /\ Woken(t)
       /\ \A t \in Threads :
            (pc'[t] = "acquire" /\ pc[t] # "acquire" /\ admit'[cmd'[t]] = "wait")
                => WakeStep(t) /\ Woken(t)]_vars

\* C9: a started executor calls onFinish exactly once, after isRunning() has
\* returned false, whatever the outcomes of its execute() calls: it never
\* calls it twice or while the command is running, and from some moment on
\* every executor that has been started has made its call.
C9_OnFinishOnce ==
    /\ [](\A c \in 1..NumCommands :
            /\ finishCalls[c] <= 1
            /\ finishCalls[c] = 1 => (polledFalse[c] /\ ~isRunning[c]))
    /\ <>[](\A c \in 1..NumCommands : pc[c] # "none" => finishCalls[c] = 1)

\* one executor has finished after two failed calls, another after a retry
\* that succeeded
C9_Witness ==
    /\ \E c \in Commands : execLog[c] = <<"fail", "ok">> /\ finishCalls[c] = 1
    /\ \E c \in Commands : execLog[c] = <<"fail", "fail">> /\ finishCalls[c] = 1

\* C10: execute() is called once when the first call succeeds and twice when
\* it fails, never a third time; a failure of the second call propagates out
\* of the executor.
C10_ExecuteOnceOrTwice ==
    \A c \in Commands :
        /\ pc[c] = "none" => execLog[c] = <<>>
        /\ pc[c] = "exec" => execLog[c] = <<>>
        /\ pc[c] = "retry" => execLog[c] = <<"fail">>
        /\ pc[c] \notin {"none", "exec", "retry"}
             => execLog[c] \in {<<"ok">>, <<"fail", "ok">>, <<"fail", "fail">>}
        /\ execLog[c] = <<"fail", "fail">> => raised[c] /\ pc[c] # "done"

\* thread t holds a permit of the gate: it is inside a dispatch past the
\* acquire, or a frame of it suspended in the except clause is
HoldsGate(t) == pc[t] \in (DispatchPcs \ {"acquire"}) \/ depth[t] > 0

\* C11: every dispatch that has acquired the gate eventually releases it, also
\* when the factory raises a fatal error with commands in the wait queue; and
\* whenever no dispatch is in progress the gate has all `limit` permits.
C11_GateReleased ==
    /\ \A t \in 0..RaceCommands : HoldsGate(t) ~> ~HoldsGate(t)
    /\ [](Quiescent => semaphore = limit)

\* C12: when the factory raises a fatal error in a dispatch started by
\* addCommand, the except clause of that dispatch goes on to re-raise the error
\* to the caller: every step the caller takes in it leaves the running-command
\* list and the free list as they were, the failed command has no record, and
\* the clause is left only for the finally clause.
C12_FatalErrorLeavesPool ==
    [][(pc[Caller] = "except" /\ depth[Caller] = 0 /\ idx[Caller] = 0 /\ Moves(Caller))
        => /\ pc'[Caller] \in {"except", "release"}
           /\ ~HasRecord(cmd[Caller])'
           /\ commands' = commands
           /\ freeConnections' = freeConnections]_vars

\* C13: a factory call that fails with "too many connections" leaves the
\* connection list and the free list as they are and returns into the dispatch
\* loop, which calls fillConnection again as long as no slot is free; the error
\* does not take the thread into the except clause of __run, which is entered
\* only from the pop of line 169, so it cannot reach the caller of addCommand.
C13_TooManySwallowed ==
    /\ [][\A t \in Threads :
            (pc[t] = "factory" /\ pc'[t] # "factory" /\ connections' = connections)
            => pc'[t] = "loop" /\ freeConnections' = freeConnections]_vars
    /\ [][\A t \in Threads :
            (pc[t] = "loop" /\ pc'[t] # "loop")
            => pc'[t] = (IF Len(freeConnections) = 0 THEN "fill" ELSE "pop")]_vars
    /\ [][\A t \in Threads :
            (pc[t] # "except" /\ pc'[t] = "except")
            => pc[t] = "pop" /\ Len(freeConnections) = 0]_vars

\* a dispatch is back in its loop after the factory failed with "too many
\* connections" on the very first call
C13_Witness ==
    \E t \in Threads : pc[t] = "loop" /\ Len(connections) = 0 /\ semaphore < limit

\* C14: without direct addConnection calls the connection list never holds more
\* than limit + 1 batches.
C14_ConnectionsBounded == Len(connections) <= limit + 1

\* C15: a run of the completion handler for a command that has a record
\* removes the record: once the loop of lines 195-201 of the command's onFinish
\* call is over, the command has no record.
C15_RecordFreedOnce ==
    \A c \in Commands :
        (finishCalls[c] = 1 /\ ~(pc[c] = "finish" /\ hp[c] \in {"scan", "free", "remove"}))
        => ~HasRecord(c)

\* the config of the command whose completion handler thread t is running: the
\* config its dispatch was given when the dispatch has failed; the config of
\* its record when its executor has finished, which line 198 has copied when
\* the record is gone
TriggerConfig(t) ==
    IF pc[t] = "except" THEN cfg[t]
    ELSE IF HasRecord(t) THEN HandlerRecord(t).config
    ELSE found[t]

\* C16: whenever the completion handler dispatches a queued command, the
\* dispatch is given, and the new record holds, the config of the command
\* whose completion triggered it, on every path into the handler.
C16_WokenGetsFreedConfig ==
    /\ [][\A t \in Threads :
            (WakeStep(t) /\ Len(waitingCommands) > 0)
            => cfg'[t] = TriggerConfig(t)]_vars
    /\ [][\A t \in Threads :
            (pc[t] = "append" /\ pc'[t] = "start")
            => commands'[Len(commands')].config = cfg[t]]_vars

\* C17: an addCommand call that finds `limit` or more records at line 143
\* goes to __waitCommand and changes nothing of the pool on the way; the step
\* of __waitCommand appends the command at the end of the wait queue, leaves
\* the records, the free list, the connection list and the gate alone and
\* returns without an error; it never has to wait, and the caller does not
\* pass through fillConnection.
C17_QueuedChangesNothingElse ==
    /\ [][(pc[Caller] = "idle" /\ pc'[Caller] # "idle" /\ Len(commands) >= limit)
          => pc'[Caller] = "wait" /\ UNCHANGED workerVars]_vars
    /\ [][(pc[Caller] = "wait" /\ pc'[Caller] # "wait")
          => /\ waitingCommands' = Append(waitingCommands, submitted)
             /\ UNCHANGED <<commands, freeConnections, connections, semaphore, threadId>>
             /\ pc'[Caller] = "idle"
             /\ ~raised'[Caller]]_vars
    /\ [](pc[Caller] = "wait" => ENABLED WaitCommand)

\* the call has returned: the command is the last of the wait queue and the
\* running-command list is at the limit
C17_Witness ==
    /\ pc[Caller] = "idle"
    /\ Len(waitingCommands) > 0
    /\ Last(waitingCommands) = submitted
    /\ Len(commands) >= limit
    /\ semaphore = limit

\* C18: a command whose executor has been started has been given a connection
\* by setConnection, so execute() never runs on an unbound command, and has
\* had its record added: the record is there while the executor runs, at the
\* moment its onFinish is called and until that call removes it at line 199.
C18_BoundAndRecordedBeforeStart ==
    \A c \in Commands :
        /\ pc[c] # "none" => bound[c] \in 1..Len(connections)
        /\ execLog[c] # <<>> => bound[c] # 0
        /\ (pc[c] \in {"exec", "retry", "poll"}
               \/ (pc[c] = "finish" /\ hp[c] \in {"call", "free", "remove"}))
              => \E k \in 1..Len(commands) :
                    commands[k].command = c /\ commands[k].index = bound[c]

\* an executor is about to call onFinish
C18_Witness ==
    \E c \in Commands :
        /\ pc[c] = "finish"
        /\ hp[c] = "call"
        /\ execLog[c] # <<>>
        /\ bound[c] # 0
        /\ HasRecord(c)

\* C19: no two pending execution records hold the same connection slot index.
C19_NoSharedSlot ==
    \A j, k \in 1..Len(commands) : j # k => commands[j].index # commands[k].index

\* C20: when a dispatch fails after it has popped a slot index (idx[t] is set
\* in the failing frame), that index is in the free list, or in a record again,
\* when its except clause, the last code of the dispatch that touches the free
\* list, is over.
C20_FailedDispatchReturnsSlot ==
    [][\A t \in Threads :
        (ExceptEnds(t) /\ idx[t] # 0) => SlotCount(idx[t])' >= 1]_vars

====
